---- MODULE Spec2Model ----
(***************************************************************************)
(* Model of create_christmas_linkedin_post.py: the File Locator            *)
(* (find_image_files), the Text Eraser (remove_text_from_image), the Logo  *)
(* Compositor (add_logo_to_image), the Caption Renderer                    *)
(* (add_text_to_image), the Canvas Formatter (format_as_linkedin_post)     *)
(* and the pipeline main() that chains them.                               *)
(*                                                                         *)
(* Python float arithmetic is IEEE-754 binary64 with round-to-nearest,     *)
(* ties-to-even; it is modelled bit by bit below, because several results  *)
(* of the script are int() truncations of float products.                  *)
(***************************************************************************)
EXTENDS Integers, Sequences, FiniteSets, TLC

VARIABLES
  pc,            \* where the run is: a stage of main(), or a direct call of a function
  tree,          \* the image files under /workspace, in the order os.walk yields them
  args,          \* the parsed command line
  image_files,   \* main's dictionary of roles ('christmas', 'logo') to paths
  christmas_img, \* the image the stages work on
  drawn,         \* the draw.rectangle calls of the Text Eraser, in order
  logo_info,     \* the box returned by the Logo Compositor, or None
  caption,       \* the caption as the Caption Renderer drew it, or None
  linkedin_post, \* the Canvas Formatter's result, or None
  printed,       \* the lines printed so far, each by its first words
  exit_status,   \* the process's exit status; -1 while it runs
  saved,         \* whether the output file has been written
  call           \* the arguments of a direct call

vars == <<pc, tree, args, image_files, christmas_img, drawn, logo_info, caption,
          linkedin_post, printed, exit_status, saved, call>>

\* The value of a Python name bound to None, and of an absent dictionary key.
\* (Every value that may be None is a tuple or a record.)
None == <<>>

(***************************************************************************)
(* Binary64 arithmetic.  A positive float is [m, e]: m is its 53-bit       *)
(* significand, most significant bit first (m[1] = 1), and e the exponent  *)
(* of the last bit, so that the value is Nat(m) * 2^e.  Zero is FZero.     *)
(***************************************************************************)

\* Significand width of a Python float (binary64).
Precision == 53

FZero == [m |-> <<>>, e |-> 0]

Zeros(k) == [i \in 1..k |-> 0]

\* Bit strings are added, multiplied and divided Chunk bits at a time, in
\* digits of base 2^Chunk ("limbs"), most significant first.
Chunk == 15

Base == 2 ^ Chunk

\* The binary digits of 0 <= n < 2^31, most significant first, 31 of them.
BitsOfNat(n) == [i \in 1..31 |-> (n \div (2 ^ (31 - i))) % 2]

RECURSIVE NatOfBits(_)
\* The number a bit string (of at most 30 bits) denotes.
NatOfBits(bits) ==
  IF bits = <<>> THEN 0
  ELSE 2 * NatOfBits(SubSeq(bits, 1, Len(bits) - 1)) + bits[Len(bits)]

\* bits without its leading zeros.
StripZeros(bits) ==
  LET ones == {i \in 1..Len(bits) : bits[i] = 1}
  IN  IF ones = {} THEN <<>>
      ELSE LET first == CHOOSE i \in ones : \A j \in ones : i <= j
           IN  SubSeq(bits, first, Len(bits))

\* bits padded on the left with zeros to length n.
PadLeft(bits, n) == Zeros(n - Len(bits)) \o bits

\* A bit string as limbs.
ToLimbs(bits) ==
  LET k == (Len(bits) + Chunk - 1) \div Chunk
      p == PadLeft(bits, k * Chunk)
  IN  [j \in 1..k |-> NatOfBits(SubSeq(p, (j - 1) * Chunk + 1, j * Chunk))]

\* Limbs as a bit string.
FromLimbs(limbs) ==
  [i \in 1..(Len(limbs) * Chunk) |->
     (limbs[((i - 1) \div Chunk) + 1] \div (2 ^ (Chunk - 1 - ((i - 1) % Chunk)))) % 2]

\* bits + 1 on a string of fixed length that is not all ones.
Incr(bits) ==
  LET zs   == {i \in 1..Len(bits) : bits[i] = 0}
      last == CHOOSE i \in zs : \A j \in zs : j <= i
  IN  [i \in 1..Len(bits) |-> IF i < last THEN bits[i] ELSE IF i = last THEN 1 ELSE 0]

\* The float nearest to Nat(bits) * 2^e, ties to the even significand.
RoundBits(bits, e) ==
  LET b == StripZeros(bits)
      L == Len(b)
  IN  IF L = 0 THEN FZero
      ELSE IF L <= Precision
      THEN [m |-> b \o Zeros(Precision - L), e |-> e - (Precision - L)]
      ELSE LET head   == SubSeq(b, 1, Precision)
               guard  == b[Precision + 1]
               sticky == \E i \in (Precision + 2)..L : b[i] = 1
               up     == guard = 1 /\ (sticky \/ head[Precision] = 1)
               ex     == e + (L - Precision)
           IN  IF ~up THEN [m |-> head, e |-> ex]
               ELSE IF \A i \in 1..Precision : head[i] = 1
               THEN [m |-> <<1>> \o Zeros(Precision - 1), e |-> ex + 1]
               ELSE [m |-> Incr(head), e |-> ex]

\* float(n) for an int 0 <= n < 2^31: exact.
FromInt(n) == RoundBits(BitsOfNat(n), 0)

RECURSIVE FracLimbs(_, _, _)
\* The first k limbs of r / b after the point (0 <= r < b <= 2^16), followed by
\* one more limb that is 1 iff the digits after them are not all zero.
FracLimbs(r, b, k) ==
  IF k = 0 THEN << IF r = 0 THEN 0 ELSE 1 >>
  ELSE <<(r * Base) \div b>> \o FracLimbs((r * Base) % b, b, k - 1)

\* Python's a / b on ints a >= 0, b > 0: the correctly rounded quotient.
FDiv(a, b) ==
  LET k == 6
  IN  RoundBits(BitsOfNat(a \div b) \o FromLimbs(FracLimbs(a % b, b, k)),
                -((k + 1) * Chunk))

RECURSIVE MulLimbs(_, _, _, _)
\* n times the limbs limbs[1..i], plus carry.
MulLimbs(limbs, i, n, carry) ==
  IF i = 0 THEN <<carry>>
  ELSE LET t == n * limbs[i] + carry
       IN  Append(MulLimbs(limbs, i - 1, n, t \div Base), t % Base)

\* Python's n * f on an int 0 <= n < 2^16 and a float f: float(n) * f, rounded once.
FMulInt(n, f) ==
  IF n = 0 \/ f = FZero THEN FZero
  ELSE LET l == ToLimbs(f.m)
       IN  RoundBits(FromLimbs(MulLimbs(l, Len(l), n, 0)), f.e)

\* Python's int(f) on a float 0 <= f < 2^30: truncation.
Trunc(f) ==
  IF f = FZero THEN 0
  ELSE LET keep == Precision + f.e
       IN  IF keep <= 0 THEN 0 ELSE NatOfBits(SubSeq(f.m, 1, keep))

\* f > g on floats >= 0.
FGreater(f, g) ==
  IF f = FZero THEN FALSE
  ELSE IF g = FZero THEN TRUE
  ELSE IF f.e # g.e THEN f.e > g.e
  ELSE LET d == {i \in 1..Precision : f.m[i] # g.m[i]}
       IN  d # {} /\ f.m[CHOOSE i \in d : \A j \in d : i <= j] = 1

\* Python's max(f, g): the first argument unless the second is greater.
FMax(f, g) == IF FGreater(g, f) THEN g ELSE f

RECURSIVE AddLimbs(_, _, _, _)
\* a[1..i] + b[1..i] + carry, on limb strings of equal length.
AddLimbs(a, b, i, carry) ==
  IF i = 0 THEN <<carry>>
  ELSE LET t == a[i] + b[i] + carry
       IN  Append(AddLimbs(a, b, i - 1, t \div Base), t % Base)

RECURSIVE SubLimbs(_, _, _, _)
\* a[1..i] - b[1..i] - borrow, on limb strings of equal length (a >= b).
SubLimbs(a, b, i, borrow) ==
  IF i = 0 THEN <<>>
  ELSE LET t == a[i] - b[i] - borrow
       IN  Append(SubLimbs(a, b, i - 1, IF t < 0 THEN 1 ELSE 0), (t + Base) % Base)

\* The two significands written at the smaller of the two exponents, as limb
\* strings of equal length.
Aligned(f, g) ==
  LET e0 == IF f.e < g.e THEN f.e ELSE g.e
      a  == f.m \o Zeros(f.e - e0)
      b  == g.m \o Zeros(g.e - e0)
      n  == IF Len(a) > Len(b) THEN Len(a) ELSE Len(b)
  IN  [a |-> ToLimbs(PadLeft(a, n)), b |-> ToLimbs(PadLeft(b, n)), e |-> e0]

\* f + g on floats >= 0.
FAdd(f, g) ==
  IF f = FZero THEN g
  ELSE IF g = FZero THEN f
  ELSE LET al == Aligned(f, g)
       IN  RoundBits(FromLimbs(AddLimbs(al.a, al.b, Len(al.a), 0)), al.e)

\* f - g on floats f >= g >= 0.
FSub(f, g) ==
  IF g = FZero THEN f
  ELSE LET al == Aligned(f, g)
       IN  RoundBits(FromLimbs(SubLimbs(al.a, al.b, Len(al.a), 0)), al.e)

(***************************************************************************)
(* Canvas Formatter: format_as_linkedin_post(img).  Only the geometry of   *)
(* the image matters: its size, the size it is resized to and where the    *)
(* resized image is pasted on the black 1200x627 canvas.                   *)
(***************************************************************************)

linkedin_width == 1200

linkedin_height == 627

FormatAsLinkedinPost(img) ==
  LET scale_width  == FDiv(linkedin_width, img.width)
      scale_height == FDiv(linkedin_height, img.height)
      scale        == FMax(scale_width, scale_height)
      new_width    == Trunc(FMulInt(img.width, scale))
      new_height   == Trunc(FMulInt(img.height, scale))
  IN  [width      |-> linkedin_width,
       height     |-> linkedin_height,
       new_width  |-> new_width,
       new_height |-> new_height,
       paste_x    |-> (linkedin_width - new_width) \div 2,
       paste_y    |-> (linkedin_height - new_height) \div 2]

\* The canvas pixels of a formatted post that the pasted image does not cover
\* (they keep the canvas colour, black), as <<columns, rows>> left uncovered.
Uncovered(post) ==
  <<{x \in 0..(post.width - 1) :
        ~(post.paste_x <= x /\ x < post.paste_x + post.new_width)},
    {y \in 0..(post.height - 1) :
        ~(post.paste_y <= y /\ y < post.paste_y + post.new_height)}>>

\* Image sides up to MaxSmallSide, and a few around and beyond the canvas size.
MaxSmallSide == 12

FormatWidths == (1..MaxSmallSide) \cup {281, 400, 1199, 1200, 2400, 4000}

FormatHeights == (1..MaxSmallSide) \cup {147, 209, 626, 627, 1254, 3000}

\* A direct call format_as_linkedin_post(img) on an image of any of the sizes.
InitFormat ==
  /\ pc = "call_format"
  /\ christmas_img \in [width : FormatWidths, height : FormatHeights]
  /\ tree = <<>> /\ args = None /\ image_files = None /\ logo_info = None
  /\ caption = None /\ linkedin_post = None /\ printed = <<>> /\ drawn = <<>>
  /\ exit_status = -1 /\ saved = FALSE /\ call = None

CallFormat ==
  /\ pc = "call_format"
  /\ linkedin_post' = FormatAsLinkedinPost(christmas_img)
  /\ pc' = "returned"
  /\ UNCHANGED <<tree, args, image_files, drawn, christmas_img, logo_info, caption,
                 printed, exit_status, saved, call>>

NextFormat == CallFormat

SpecFormat == InitFormat /\ [][NextFormat]_vars

\* C1: for every input size (w, h) >= (1, 1) the resized image is at least
\* 1200 wide and 627 high and is pasted at an offset <= 0 on both axes, so
\* that it covers every pixel of the canvas and no black padding remains.
C1_CoverInvariant ==
  pc = "returned" =>
    /\ linkedin_post.new_width >= linkedin_width
    /\ linkedin_post.new_height >= linkedin_height
    /\ linkedin_post.paste_x <= 0
    /\ linkedin_post.paste_y <= 0
    /\ Uncovered(linkedin_post) = <<{}, {}>>

(***************************************************************************)
(* Images.  An image is a record: its size, its pixel rows px (used by the *)
(* Text Eraser only), the box where a logo was pasted on it and the        *)
(* caption drawn on it (None until then).                                  *)
(***************************************************************************)

MkImage(w, h, px) ==
  [width |-> w, height |-> h, px |-> px, logo |-> None, text |-> None]

(***************************************************************************)
(* Files.  A file is a record: its path (a rank: paths compare as their    *)
(* ranks do), its name, its size in bytes as os.path.getsize reports it    *)
(* (-1: getsize raises, as on a dangling link), what it holds and, when it *)
(* holds an image, the image's size.  Every file of the model has an image *)
(* extension: the walk looks at no other.  What a file holds is one of:    *)
(*   "rgb", "rgba"     an image that decodes, of mode RGB or another mode; *)
(*   "garbage"         nothing Image.open identifies: it raises;           *)
(*   "truncated_rgb", "truncated_rgba"                                     *)
(*                     an image whose header Image.open reads (its mode    *)
(*                     and size are known) and whose pixel data fails to   *)
(*                     decode: Image.open returns, and the first operation *)
(*                     that loads the pixels raises;                       *)
(*   "missing"         there is no file at the path.                       *)
(***************************************************************************)

File(rank, name, size, content, dims) ==
  [path |-> <<rank>>, name |-> name, size |-> size, content |-> content, dims |-> dims]

\* 'christmas' in filename_lower
HasChristmas(name) ==
  name \in {"christmas.jpg", "christmas_logo.png", ".christmas.png"}

\* 'logo' in filename_lower
HasLogo(name) == name \in {"logo.png", "christmas_logo.png"}

\* 'nimex' in filename_lower
HasNimex(name) == name \in {"nimex_office.jpg"}

\* filename.startswith('.'), or the file is under a directory whose name does
\* (the walk does not descend into it).
Hidden(name) == name \in {".christmas.png"}

(***************************************************************************)
(* File Locator: find_image_files().                                       *)
(***************************************************************************)

\* Mutation of Classify: a later match replaces an earlier one.
RECURSIVE Classify_LastWins(_, _)
Classify_LastWins(all_images, n) ==
  IF n = 0 THEN [christmas |-> None, logo |-> None]
  ELSE LET files == Classify_LastWins(all_images, n - 1)
           f     == all_images[n]
       IN  IF HasChristmas(f.name) /\ ~HasLogo(f.name)
           THEN [files EXCEPT !.christmas = f.path]
           ELSE IF HasLogo(f.name) \/ HasNimex(f.name)
                THEN [files EXCEPT !.logo = f.path]
                ELSE files

RECURSIVE Classify(_, _)
\* files after the walk has classified all_images[1..n] by name (lines 37-43).
Classify(all_images, n) ==
  IF n = 0 THEN [christmas |-> None, logo |-> None]
  ELSE LET files == Classify(all_images, n - 1)
           f     == all_images[n]
       IN  IF HasChristmas(f.name) /\ ~HasLogo(f.name)
           THEN IF files.christmas = None
                THEN [files EXCEPT !.christmas = f.path]
                ELSE files
           ELSE IF (HasLogo(f.name) \/ HasNimex(f.name)) /\ files.logo = None
                THEN [files EXCEPT !.logo = f.path]
                ELSE files

\* (size, filepath) tuples compare by size, then by path.
SizePathLeq(f, g) == f.size < g.size \/ (f.size = g.size /\ f.path[1] <= g.path[1])

\* Mutation of LargestImage: the smallest file is taken.
LargestImage_Smallest(all_images) ==
  LET sized == {i \in 1..Len(all_images) : all_images[i].size >= 0}
  IN  IF sized = {} THEN None
      ELSE all_images[CHOOSE i \in sized :
                        \A j \in sized : SizePathLeq(all_images[i], all_images[j])].path

\* image_sizes.sort(reverse=True)[0][1], or None when no size could be read.
LargestImage(all_images) ==
  LET sized == {i \in 1..Len(all_images) : all_images[i].size >= 0}
  IN  IF sized = {} THEN None
      ELSE all_images[CHOOSE i \in sized :
                        \A j \in sized : SizePathLeq(all_images[j], all_images[i])].path

\* The first image that is not the christmas one and is under 5 MiB, or None.
FirstSmallImage(all_images, christmas) ==
  LET ok == {i \in 1..Len(all_images) :
               /\ all_images[i].path # christmas
               /\ all_images[i].size >= 0
               /\ all_images[i].size < 5 * 1024 * 1024}
  IN  IF ok = {} THEN None
      ELSE all_images[CHOOSE i \in ok : \A j \in ok : i <= j].path

NotHidden(f) == ~Hidden(f.name)

\* The returned dictionary; a role that is None is a key that is absent.
FindImageFiles(walk) ==
  LET all_images == SelectSeq(walk, NotHidden)
      named      == Classify(all_images, Len(all_images))
      christmas  == IF all_images # <<>> /\ named.christmas = None
                    THEN LargestImage(all_images)
                    ELSE named.christmas
      logo       == IF all_images # <<>> /\ named.logo = None
                    THEN FirstSmallImage(all_images, christmas)
                    ELSE named.logo
  IN  [christmas |-> christmas, logo |-> logo]

Names == {"photo.jpg", "christmas.jpg", "logo.png", "nimex_office.jpg",
          "christmas_logo.png", ".christmas.png"}

\* File sizes: unreadable, small, and above the 5 MiB limit for a logo.
Sizes == {-1, 1000, 6000000}

\* At most MaxFiles image files under /workspace.
MaxFiles == 3

\* The path ranks of the n files of a walk, in the order the walk yields them.
\* Paths matter only in which of several files of one size sorts last: the
\* rotations of 1..n let that be any of them.
Orders(n) == IF n = 0 THEN {<<>>} ELSE {[i \in 1..n |-> ((i + r) % n) + 1] : r \in 1..n}

\* The directory trees: n files, their names and sizes, in a walk order.
IsWalk(t) ==
  \E n \in 0..MaxFiles :
    \E o \in Orders(n), nm \in [1..n -> Names], sz \in [1..n -> Sizes] :
      t = [i \in 1..n |-> File(o[i], nm[i], sz[i], "rgb", <<8, 60>>)]

\* A direct call find_image_files() on any directory tree.
InitLocator ==
  /\ pc = "call_locator"
  /\ IsWalk(tree)
  /\ args = None /\ image_files = None /\ christmas_img = None /\ logo_info = None
  /\ caption = None /\ linkedin_post = None /\ printed = <<>> /\ drawn = <<>>
  /\ exit_status = -1 /\ saved = FALSE /\ call = None

CallLocator ==
  /\ pc = "call_locator"
  /\ image_files' = FindImageFiles(tree)
  /\ pc' = "returned"
  /\ UNCHANGED <<tree, args, christmas_img, drawn, logo_info, caption,
                 linkedin_post, printed, exit_status, saved, call>>

NextLocator == CallLocator

SpecLocator == InitLocator /\ [][NextLocator]_vars

\* The files the walk looks at, and those among them with a word in the name.
Visited == {i \in 1..Len(tree) : ~Hidden(tree[i].name)}

WithChristmas(S) == {i \in S : HasChristmas(tree[i].name)}

WithLogo(S) == {i \in S : HasLogo(tree[i].name)}

\* C4 as claimed: in every tree with exactly one image file whose name
\* contains "christmas" and exactly one (other) whose name contains "logo",
\* these two files are returned as files['christmas'] and files['logo'], in
\* every order of the walk and whatever other image files are present.
C4_BothResolved ==
  (/\ pc = "returned"
   /\ Cardinality(WithChristmas(Visited)) = 1
   /\ Cardinality(WithLogo(Visited)) = 1
   /\ WithChristmas(Visited) # WithLogo(Visited)) =>
    /\ \A i \in WithChristmas(Visited) : image_files.christmas = tree[i].path
    /\ \A i \in WithLogo(Visited) : image_files.logo = tree[i].path

\* C4 amended: in every tree in which exactly one image file the walk visits
\* (not hidden) has "christmas" in its name and exactly one other has "logo",
\* and no visited image file that the walk yields before the logo-named one
\* has "nimex" in its name, these two files are returned as
\* files['christmas'] and files['logo'], whatever other image files, of any
\* size, are present.
C4_BothResolvedAmended ==
  (/\ pc = "returned"
   /\ Cardinality(WithChristmas(Visited)) = 1
   /\ Cardinality(WithLogo(Visited)) = 1
   /\ WithChristmas(Visited) # WithLogo(Visited)
   /\ \A l \in WithLogo(Visited) : \A i \in Visited : i < l => ~HasNimex(tree[i].name)) =>
    /\ \A i \in WithChristmas(Visited) : image_files.christmas = tree[i].path
    /\ \A i \in WithLogo(Visited) : image_files.logo = tree[i].path

\* Both files were resolved with a third, larger, unrelated file yielded first.
C4_Witness ==
  /\ pc = "returned" /\ Len(tree) = 3
  /\ tree[1].name = "photo.jpg" /\ tree[1].size = 6000000
  /\ tree[2].name = "logo.png" /\ tree[3].name = "christmas.jpg"
  /\ image_files.christmas = tree[3].path /\ image_files.logo = tree[2].path

\* The visited files whose size can be read.
Sized == {i \in Visited : tree[i].size >= 0}

\* No visited file is classified 'christmas' by its name.
NoneNamedChristmas ==
  \A i \in Visited : ~(HasChristmas(tree[i].name) /\ ~HasLogo(tree[i].name))

\* files['christmas'] is a visited file of maximal size among those whose size
\* can be read and, among these of that size, the one whose path sorts last.
BaseIsLargest ==
  \E i \in Sized :
    /\ image_files.christmas = tree[i].path
    /\ \A j \in Sized : tree[j].size <= tree[i].size
    /\ \A j \in Sized : tree[j].size = tree[i].size => tree[j].path[1] <= tree[i].path[1]

\* C5 as claimed: in every tree with at least two image files and none
\* classified as 'christmas' by name, files['christmas'] is set to an image
\* file whose byte size is the maximum over all enumerated image files, and
\* among those of that size the one whose path sorts last.
C5_LargestIsBase ==
  (pc = "returned" /\ NoneNamedChristmas /\ Cardinality(Visited) >= 2) => BaseIsLargest

\* C5 amended: in every tree with at least two enumerated image files, none
\* classified as 'christmas' by name, and at least one whose size can be read,
\* files['christmas'] is set to the image file whose byte size is the maximum
\* over the enumerated image files whose size can be read, and among those of
\* that size the one whose path sorts last; when no size can be read the key
\* stays absent.
C5_LargestReadableIsBase ==
  (pc = "returned" /\ NoneNamedChristmas /\ Cardinality(Visited) >= 2) =>
    IF Sized # {} THEN BaseIsLargest ELSE image_files.christmas = None

\* Two files of the maximal size, the one whose path sorts last yielded first,
\* and a smaller one: the fallback has chosen.
C5_Witness ==
  /\ pc = "returned" /\ NoneNamedChristmas /\ Len(tree) = 3 /\ Cardinality(Sized) = 3
  /\ \A i \in 1..3 : tree[i].name = "photo.jpg"
  /\ tree[1].size = 6000000 /\ tree[2].size = 1000 /\ tree[3].size = 6000000
  /\ tree[1].path[1] > tree[3].path[1]
  /\ image_files.christmas = tree[1].path

\* C10: the returned mapping never gives both roles to one file: whenever
\* both keys are present, files['christmas'] # files['logo'].
C10_RolesDiffer ==
  (pc = "returned" /\ image_files.christmas # None /\ image_files.logo # None) =>
    image_files.christmas # image_files.logo

(***************************************************************************)
(* Text Eraser: remove_text_from_image(img).  One colour channel is        *)
(* modelled (the code treats the three alike) and every pixel row is of    *)
(* one colour: px[y + 1] is the colour of row y.  The sampled regions then *)
(* differ only in how many columns of each row they hold.                  *)
(* draw.rectangle([(x0, y0), (x1, y1)]) fills both corner points inclusive *)
(* and is clipped to the image.                                            *)
(***************************************************************************)

RECURSIVE RowSum(_, _, _)
\* The sum of the colours of rows lo .. hi - 1 (the slice [lo:hi]).
RowSum(px, lo, hi) == IF lo >= hi THEN 0 ELSE px[hi] + RowSum(px, lo, hi - 1)

Max0(n) == IF n < 0 THEN 0 ELSE n

\* int(height * 0.12)
TextAreaHeight(height) == Trunc(FMulInt(height, FDiv(12, 100)))

TextAreaYStart(height) == height - TextAreaHeight(height) - 30

\* sample_regions, each as [lo, hi, cols]: rows lo .. hi - 1, cols columns.
SampleRegions(width, height) ==
  LET y_start    == TextAreaYStart(height)
      side_width == width \div 4
  IN  (IF y_start > 50
       THEN << [lo |-> Max0(y_start - 100), hi |-> y_start, cols |-> width] >>
       ELSE <<>>)
      \o
      (IF y_start > 0
       THEN << [lo |-> Max0(y_start - 50), hi |-> y_start, cols |-> side_width],
               \* [-side_width:] is the whole row when side_width is 0
               [lo |-> Max0(y_start - 50), hi |-> y_start,
                cols |-> IF side_width = 0 THEN width ELSE side_width] >>
       ELSE <<>>)

RECURSIVE RegionsTotal(_, _, _)
\* <<sum of the colours, number of pixels>> of regions[1..n].
RegionsTotal(px, regions, n) ==
  IF n = 0 THEN <<0, 0>>
  ELSE LET r    == regions[n]
           rest == RegionsTotal(px, regions, n - 1)
       IN  <<rest[1] + r.cols * RowSum(px, r.lo, r.hi),
             rest[2] + r.cols * (r.hi - r.lo)>>

\* avg_color: the mean of the sampled regions, or of the top quarter.
AvgColor(img) ==
  LET regions == SampleRegions(img.width, img.height)
      total   == IF regions # <<>>
                 THEN RegionsTotal(img.px, regions, Len(regions))
                 ELSE <<img.width * RowSum(img.px, 0, img.height \div 4),
                        img.width * (img.height \div 4)>>
  IN  Trunc(FDiv(total[1], total[2]))

\* blend_color: the mean of the 3 x 4 samples above the band.
BlendColor(img) ==
  LET y_start == TextAreaYStart(img.height)
      rows    == <<y_start - 20, y_start - 15, y_start - 10, y_start - 5>>
  IN  Trunc(FDiv(3 * (img.px[rows[1] + 1] + img.px[rows[2] + 1]
                      + img.px[rows[3] + 1] + img.px[rows[4] + 1]), 12))

\* blended_color of strip i.
BlendedColor(avg_color, blend_color, i, text_area_height) ==
  LET alpha == FDiv(i, text_area_height)
  IN  Trunc(FAdd(FMulInt(avg_color, FSub(FromInt(1), alpha)),
                 FMulInt(blend_color, alpha)))

\* The rectangles drawn, in order, each as [y0, y1, fill]: the rows y0 .. y1.
\* (Line 145 lets every strip through: y_pos <= height - 31.  With a band
\* start above 20 the twelve blend samples of lines 129-133 all exist.)
Rectangles(img) ==
  LET height  == img.height
      tah     == TextAreaHeight(height)
      y_start == TextAreaYStart(height)
      avg     == AvgColor(img)
  IN  << [y0 |-> y_start, y1 |-> height, fill |-> avg] >>
      \o
      (IF y_start > 20
       THEN [k \in 1..tah |->
               [y0 |-> y_start + (k - 1), y1 |-> y_start + (k - 1) + 1,
                fill |-> BlendedColor(avg, BlendColor(img), k - 1, tah)]]
       ELSE <<>>)

\* The colour of row y after the rectangles: that of the last one covering it.
Painted(px, rects, y) ==
  LET over == {k \in 1..Len(rects) : rects[k].y0 <= y /\ y <= rects[k].y1}
  IN  IF over = {} THEN px[y + 1]
      ELSE rects[CHOOSE k \in over : \A j \in over : j <= k].fill

\* Returns <<image, rectangles drawn>>.
RemoveTextFromImage(img) ==
  CHOOSE result \in
    { << [img EXCEPT !.px = [r \in 1..img.height |-> Painted(img.px, rects, r - 1)]],
         rects >> : rects \in {Rectangles(img)} } : TRUE

\* Image heights: one too small for any sample region, one too small for the
\* smoothing pass, and those from the smallest with a smoothing pass on.
MinSmoothHeight == 57

MaxEraserHeight == 60

EraserHeights == {8, 40} \cup (MinSmoothHeight..MaxEraserHeight)

EraserWidths == {3, 8}

\* Pixel rows: one colour down to a split row, another below it.
TwoTone(h, split, top, bottom) == [r \in 1..h |-> IF r <= split THEN top ELSE bottom]

EraserImages ==
  {MkImage(w, h, TwoTone(h, split, top, bottom)) :
     w \in EraserWidths, h \in EraserHeights, split \in {5, 12},
     top \in {10, 200}, bottom \in {10, 200}}

\* A direct call remove_text_from_image(img).
InitEraser ==
  /\ pc = "call_eraser"
  /\ christmas_img \in EraserImages
  /\ tree = <<>> /\ args = None /\ image_files = None /\ logo_info = None
  /\ caption = None /\ linkedin_post = None /\ printed = <<>> /\ drawn = <<>>
  /\ exit_status = -1 /\ saved = FALSE /\ call = None

CallEraser ==
  /\ pc = "call_eraser"
  /\ \E r \in {RemoveTextFromImage(christmas_img)} :
       christmas_img' = r[1] /\ drawn' = r[2]
  /\ pc' = "returned"
  /\ UNCHANGED <<tree, args, image_files, logo_info, caption, linkedin_post,
                 printed, exit_status, saved, call>>

NextEraser == CallEraser

SpecEraser == InitEraser /\ [][NextEraser]_vars

\* C9: when the smoothing pass runs, every row of the band, from its top row
\* text_area_y_start to the bottom row height - 1, is repainted by one of the
\* strips (the rectangles after the first), the top row of the band in the
\* base colour and the bottom row of the image in the blend colour (the rows
\* the blend colour is sampled from lie above the band and keep their colour).
C9_GradientCoversBand ==
  (pc = "returned" /\ Len(drawn) > 1) =>
    LET y_start == drawn[1].y0
        height  == christmas_img.height
    IN  /\ \A y \in y_start..(height - 1) :
             \E k \in 2..Len(drawn) : drawn[k].y0 <= y /\ y <= drawn[k].y1
        /\ christmas_img.px[y_start + 1] = drawn[1].fill
        /\ christmas_img.px[height] = BlendColor(christmas_img)

(***************************************************************************)
(* Logo Compositor: add_logo_to_image(base_img, logo_path, position).      *)
(* logo is the file at logo_path.  Image.open, convert and resize raise on *)
(* a file that does not decode, and resize raises ValueError when the      *)
(* requested width or height is below 1; every exception of the body is    *)
(* caught by the except clause, which returns the base image and None.     *)
(***************************************************************************)

Inset == 40

\* The paste origin (x, y) for a position name.
LogoOrigin(position, base_width, base_height, logo_width, logo_height) ==
  IF position = "bottom_left"
  THEN <<Inset, base_height - logo_height - Inset>>
  ELSE IF position = "bottom_right"
  THEN <<base_width - logo_width - Inset, base_height - logo_height - Inset>>
  ELSE IF position = "top_left"
  THEN <<Inset, Inset>>
  ELSE <<base_width - logo_width - Inset, Inset>>

\* Returns <<image, box>>; box is <<x, y, logo_width, logo_height>> or None.
AddLogoToImage(base_img, logo, position) ==
  IF logo.content \notin {"rgb", "rgba"} THEN <<base_img, None>>
  ELSE LET logo_width  == Trunc(FMulInt(base_img.width, FDiv(15, 100)))
           logo_height == Trunc(FMulInt(logo_width, FDiv(logo.dims[2], logo.dims[1])))
           xy          == LogoOrigin(position, base_img.width, base_img.height,
                                     logo_width, logo_height)
           box         == <<xy[1], xy[2], logo_width, logo_height>>
       IN  IF logo_width < 1 \/ logo_height < 1 THEN <<base_img, None>>
           ELSE <<[base_img EXCEPT !.logo = box], box>>

Positions == {"bottom_left", "bottom_right", "top_left", "top_right"}

LogoBaseWidths == (1..MaxSmallSide) \cup {74, 327, 1200, 2000}

LogoBaseHeights == {10, 627, 1500}

\* Logo files: one that does not decode, and images of several shapes.
LogoFiles ==
  {File(1, "logo.png", 1000, "garbage", <<0, 0>>)} \cup
  {File(1, "logo.png", 1000, "rgba", d) :
     d \in {<<400, 400>>, <<11, 15>>, <<490, 10>>, <<1000, 1>>, <<3, 7>>}}

\* A direct call add_logo_to_image(base_img, logo_path, position).
InitLogo ==
  /\ pc = "call_logo"
  /\ christmas_img \in {MkImage(w, h, <<>>) : w \in LogoBaseWidths, h \in LogoBaseHeights}
  /\ call \in [logo : LogoFiles, position : Positions]
  /\ tree = <<>> /\ args = None /\ image_files = None /\ logo_info = None
  /\ caption = None /\ linkedin_post = None /\ printed = <<>> /\ drawn = <<>>
  /\ exit_status = -1 /\ saved = FALSE

CallLogo ==
  /\ pc = "call_logo"
  /\ LET r == AddLogoToImage(christmas_img, call.logo, call.position)
     IN  christmas_img' = r[1] /\ logo_info' = r[2]
  /\ pc' = "returned"
  /\ UNCHANGED <<tree, args, image_files, drawn, caption, linkedin_post, printed,
                 exit_status, saved, call>>

NextLogo == CallLogo

SpecLogo == InitLogo /\ [][NextLogo]_vars

\* floor(0.15 * W) and floor(lw * logo_height / logo_width) in exact arithmetic.
ExactLogoWidth == (15 * christmas_img.width) \div 100

ExactLogoHeight == (ExactLogoWidth * call.logo.dims[2]) \div call.logo.dims[1]

\* The logo file of the call is a valid logo.
ValidLogo == call.logo.content \in {"rgb", "rgba"}

\* The box sits 40px inside the two edges of the requested corner.
BoxAtCorner(box) ==
  LET W == christmas_img.width
      H == christmas_img.height
  IN  /\ call.position = "bottom_left"  => box[1] = 40 /\ box[2] = H - box[4] - 40
      /\ call.position = "bottom_right" => box[1] = W - box[3] - 40 /\ box[2] = H - box[4] - 40
      /\ call.position = "top_left"     => box[1] = 40 /\ box[2] = 40
      /\ call.position = "top_right"    => box[1] = W - box[3] - 40 /\ box[2] = 40

\* C6: for every base image size and every valid logo the box is not None,
\* lw = floor(0.15 W), lh = floor(lw * logo_height / logo_width) and the box
\* is 40px inside the two edges of the requested corner.
C6_AlwaysABox ==
  (pc = "returned" /\ ValidLogo) =>
    /\ logo_info # None
    /\ logo_info[3] = ExactLogoWidth
    /\ logo_info[4] = ExactLogoHeight
    /\ BoxAtCorner(logo_info)

(***************************************************************************)
(* Caption Renderer: add_text_to_image(img, text, position, logo_info).    *)
(* The environment decides which font loads (the first truetype file, the  *)
(* second, or neither) and how wide draw.textbbox measures the caption.    *)
(***************************************************************************)

Fonts == {"DejaVuSans-Bold", "LiberationSans-Bold", "default"}

FontSize(font, height) ==
  IF font = "default" THEN 24 ELSE Trunc(FMulInt(height, FDiv(45, 1000)))

\* Mutation of TextX: the caption stays at the logo's left edge even when it
\* overflows the right margin.
TextX_NoFallback(width, text_width, position, box) ==
  IF position = "center_bottom" THEN (width - text_width) \div 2
  ELSE IF position = "below_logo" /\ box # None THEN box[1]
  ELSE width \div 2

\* text_x after lines 205-231.
TextX(width, text_width, position, box) ==
  LET text_x == IF position = "below_logo" /\ box # None
                THEN box[1]
                ELSE width \div 2
  IN  IF position = "center_bottom"
      THEN (width - text_width) \div 2
      ELSE IF position = "below_logo" /\ box # None
      THEN IF text_x + text_width > width - 40
           THEN (width - text_width) \div 2
           ELSE text_x
      ELSE text_x

\* text_y after lines 205-213.
TextY(height, position, box) ==
  IF position = "below_logo" /\ box # None
  THEN box[2] + box[4] + 30
  ELSE height - 120

\* The offsets at which the caption is drawn in the outline colour.
OutlineOffsets == {d \in (-3..3) \X (-3..3) : d[1] # 0 \/ d[2] # 0}

\* The image with the caption drawn: where, with which font, how many times
\* in black (the outline) before the one time in white.
AddTextToImage(img, text_width, position, box, font) ==
  [img EXCEPT !.text =
     [position  |-> position,
      text_x    |-> TextX(img.width, text_width, position, box),
      text_y    |-> TextY(img.height, position, box),
      font      |-> font,
      font_size |-> FontSize(font, img.height),
      outline   |-> Cardinality(OutlineOffsets)]]

TextImageWidths == {200, 1200}

TextImageHeights == {300, 627}

\* Caption widths as measured, from an empty caption to one wider than the image.
TextWidths == {0, 100, 150, 1000, 1400}

TextPositions == {"below_logo", "center_bottom"}

LogoBoxes == {None, <<40, 100, 30, 30>>, <<40, 500, 180, 60>>, <<1000, 40, 160, 47>>}

\* A direct call add_text_to_image(img, text, position, logo_info).
InitText ==
  /\ pc = "call_text"
  /\ christmas_img \in {MkImage(w, h, <<>>) : w \in TextImageWidths, h \in TextImageHeights}
  /\ call \in [position : TextPositions, text_width : TextWidths, font : Fonts]
  /\ logo_info \in LogoBoxes
  /\ tree = <<>> /\ args = None /\ image_files = None
  /\ caption = None /\ linkedin_post = None /\ printed = <<>> /\ drawn = <<>>
  /\ exit_status = -1 /\ saved = FALSE

CallText ==
  /\ pc = "call_text"
  /\ christmas_img' = AddTextToImage(christmas_img, call.text_width, call.position,
                                     logo_info, call.font)
  /\ caption' = christmas_img'.text
  /\ pc' = "returned"
  /\ UNCHANGED <<tree, args, image_files, drawn, logo_info, linkedin_post, printed,
                 exit_status, saved, call>>

NextText == CallText

SpecText == InitText /\ [][NextText]_vars

\* C7: whenever the position mode is center_bottom or no logo box is supplied
\* (also position = 'below_logo' with logo_info = None), the caption is drawn
\* horizontally centred, text_x = (width - text_width) // 2, at
\* text_y = height - 120.
C7_CentredWithoutLogo ==
  (pc = "returned" /\ (call.position = "center_bottom" \/ logo_info = None)) =>
    /\ caption.text_x = (christmas_img.width - call.text_width) \div 2
    /\ caption.text_y = christmas_img.height - 120

\* C8: with position = 'below_logo' and a logo box (x, y, lw, lh) the caption
\* is drawn at text_y = y + lh + 30, at text_x = x when x + text_width <=
\* width - 40 and at text_x = (width - text_width) // 2 otherwise, and in both
\* cases the image comes back with the caption drawn.
C8_BelowLogo ==
  (pc = "returned" /\ call.position = "below_logo" /\ logo_info # None) =>
    /\ caption # None
    /\ christmas_img.text = caption
    /\ caption.text_y = logo_info[2] + logo_info[4] + 30
    /\ logo_info[1] + call.text_width <= christmas_img.width - 40
         => caption.text_x = logo_info[1]
    /\ logo_info[1] + call.text_width > christmas_img.width - 40
         => caption.text_x = (christmas_img.width - call.text_width) \div 2

\* A caption that overflows the right margin below the logo has been drawn.
C8_Witness ==
  /\ pc = "returned" /\ call.position = "below_logo" /\ logo_info # None
  /\ logo_info[1] + call.text_width > christmas_img.width - 40
  /\ caption # None /\ caption.text_x # logo_info[1]

(***************************************************************************)
(* main(), lines 273-352.  The command line gives --christmas-image and    *)
(* --logo, each absent (None) or a path, which stands here for the file at *)
(* it ("missing" when there is none).  The run goes through the stages in  *)
(* order; printed records each print by its first words, and "Traceback"   *)
(* stands for the interpreter's report of an exception nothing catches.    *)
(***************************************************************************)

\* Pixel rows of the images the files of a run hold.
Pixels(dims) == TwoTone(dims[2], 5, 200, 10)

\* The files under /workspace in the runs of the model.
Contents == {"rgb", "rgba", "garbage", "truncated_rgb", "truncated_rgba"}

Trees ==
  {<<>>}
  \cup {<<File(1, "christmas.jpg", 1000, c, <<8, 60>>)>> : c \in Contents}
  \cup {<<File(1, "christmas.jpg", 1000, c, <<8, 60>>),
          File(2, "logo.png", 1000, l, <<400, 400>>)>> :
          c \in {"rgb", "truncated_rgb"}, l \in {"rgba", "garbage"}}
  \cup {<<File(1, "photo.jpg", 6000000, "rgb", <<3, 60>>),
          File(2, "nimex_office.jpg", 1000, "rgb", <<11, 15>>)>>,
        <<File(1, "logo.png", 1000, "rgba", <<12, 57>>)>>}

\* The values of the two options.
ChristmasImageArgs ==
  {None, File(8, "other.jpg", 1000, "rgb", <<12, 57>>),
         File(8, "other.jpg", -1, "missing", <<0, 0>>)}

LogoArgs ==
  {None, File(9, "brand.png", 1000, "rgba", <<11, 15>>),
         File(9, "brand.png", -1, "missing", <<0, 0>>)}

\* os.path.exists(path) for an option's path.
Exists(f) == f.content # "missing"

\* The file at a path: one of the tree, or one named on the command line.
FileAt(path) ==
  CHOOSE f \in {tree[i] : i \in 1..Len(tree)} \cup {args.christmas_image, args.logo} :
    f # None /\ f.path = path

\* Widths of the caption as the font in use measures it.
MainTextWidths == {2, 20}

Init ==
  /\ pc = "start"
  /\ tree \in Trees
  /\ args \in [christmas_image : ChristmasImageArgs, logo : LogoArgs]
  /\ image_files = None /\ christmas_img = None /\ logo_info = None
  /\ caption = None /\ linkedin_post = None /\ printed = <<>> /\ drawn = <<>>
  /\ exit_status = -1 /\ saved = FALSE /\ call = None

\* Lines 280-284.
Locate ==
  /\ pc = "start"
  /\ image_files' = FindImageFiles(tree)
  /\ printed' = Append(printed, "Searching for image files...")
  /\ pc' = "overrides"
  /\ UNCHANGED <<tree, args, christmas_img, drawn, logo_info, caption,
                 linkedin_post, exit_status, saved, call>>

\* Lines 286-298: the options override what the Locator found.  A missing
\* --christmas-image ends the run; a missing --logo prints a warning and
\* leaves image_files['logo'] as it is.
Overrides ==
  /\ pc = "overrides"
  /\ IF args.christmas_image # None /\ ~Exists(args.christmas_image)
     THEN /\ printed' = Append(printed, "ERROR: Christmas image not found at:")
          /\ exit_status' = 1
          /\ pc' = "exited"
          /\ UNCHANGED image_files
     ELSE LET files == IF args.christmas_image # None
                       THEN [image_files EXCEPT !.christmas = args.christmas_image.path]
                       ELSE image_files
          IN  /\ IF args.logo # None /\ Exists(args.logo)
                 THEN /\ image_files' = [files EXCEPT !.logo = args.logo.path]
                      /\ UNCHANGED printed
                 ELSE /\ image_files' = files
                      /\ printed' = IF args.logo # None
                                    THEN printed \o <<"WARNING: Logo not found at:",
                                                      "Continuing without logo...">>
                                    ELSE printed
              /\ pc' = "check"
              /\ UNCHANGED exit_status
  /\ UNCHANGED <<tree, args, christmas_img, drawn, logo_info, caption,
                 linkedin_post, saved, call>>

\* Lines 300-316.
CheckFiles ==
  /\ pc = "check"
  /\ IF image_files.christmas = None
     THEN /\ printed' = printed \o <<"ERROR: Christmas image not found!",
                                     "Please ensure a Christmas image file is in the workspace.",
                                     "Looking for files with 'christmas' in the name or any image file.",
                                     "Usage:">>
          /\ exit_status' = 1
          /\ pc' = "exited"
     ELSE /\ printed' = printed
                        \o (IF image_files.logo = None
                            THEN <<"WARNING: Logo file not found!",
                                   "Looking for files with 'logo' or 'nimex' in the name.",
                                   "Continuing without logo...">>
                            ELSE <<>>)
                        \o <<"Found Christmas image:">>
                        \o (IF image_files.logo # None THEN <<"Found logo:">> ELSE <<>>)
          /\ pc' = "load"
          /\ UNCHANGED exit_status
  /\ UNCHANGED <<tree, args, image_files, christmas_img, drawn, logo_info, caption,
                 linkedin_post, saved, call>>

\* Lines 318-327.  Image.open reads the header only.  A file of another mode
\* than RGB is converted, which decodes it; an RGB file is not decoded here,
\* so that the image of a truncated one is returned with no pixel data to
\* give (px is None).
LoadBase ==
  /\ pc = "load"
  /\ LET f == FileAt(image_files.christmas)
     IN  IF f.content \in {"rgb", "rgba", "truncated_rgb"}
         THEN /\ christmas_img' = MkImage(f.dims[1], f.dims[2],
                                          IF f.content = "truncated_rgb" THEN None
                                          ELSE Pixels(f.dims))
              /\ printed' = Append(printed, "Loaded Christmas image:")
              /\ pc' = "erase"
              /\ UNCHANGED exit_status
         ELSE /\ printed' = Append(printed, "Error loading Christmas image:")
              /\ exit_status' = 1
              /\ pc' = "exited"
              /\ UNCHANGED christmas_img
  /\ UNCHANGED <<tree, args, image_files, drawn, logo_info, caption,
                 linkedin_post, saved, call>>

\* Lines 329-331.  np.array(img) at line 83 decodes the image; when that
\* raises, nothing catches it and the interpreter exits with status 1.
Erase ==
  /\ pc = "erase"
  /\ IF christmas_img.px = None
     THEN /\ printed' = printed \o <<"Removing 'and happy newyear' text...", "Traceback">>
          /\ exit_status' = 1
          /\ pc' = "exited"
          /\ UNCHANGED <<christmas_img, drawn>>
     ELSE /\ \E r \in {RemoveTextFromImage(christmas_img)} :
               christmas_img' = r[1] /\ drawn' = r[2]
          /\ printed' = Append(printed, "Removing 'and happy newyear' text...")
          /\ pc' = "logo"
          /\ UNCHANGED exit_status
  /\ UNCHANGED <<tree, args, image_files, logo_info, caption,
                 linkedin_post, saved, call>>

\* Lines 333-337.
AddLogo ==
  /\ pc = "logo"
  /\ IF image_files.logo # None
     THEN \E r \in {AddLogoToImage(christmas_img, FileAt(image_files.logo), "bottom_left")} :
            /\ christmas_img' = r[1]
            /\ logo_info' = r[2]
            /\ printed' = printed \o <<"Adding logo...">>
                          \o (IF r[2] = None THEN <<"Error adding logo:">> ELSE <<>>)
     ELSE UNCHANGED <<christmas_img, logo_info, printed>>
  /\ pc' = "text"
  /\ UNCHANGED <<tree, args, image_files, drawn, caption, linkedin_post,
                 exit_status, saved, call>>

\* Lines 339-342.
AddText ==
  /\ pc = "text"
  /\ \E font \in Fonts, text_width \in MainTextWidths :
       LET text_position == IF logo_info # None THEN "below_logo" ELSE "center_bottom"
       IN  christmas_img' = AddTextToImage(christmas_img, text_width, text_position,
                                           logo_info, font)
  /\ caption' = christmas_img'.text
  /\ printed' = Append(printed, "Adding message:")
  /\ pc' = "format"
  /\ UNCHANGED <<tree, args, image_files, drawn, logo_info, linkedin_post,
                 exit_status, saved, call>>

\* Lines 344-346.
FormatPost ==
  /\ pc = "format"
  /\ linkedin_post' = FormatAsLinkedinPost(christmas_img)
  /\ printed' = Append(printed, "Formatting as LinkedIn post (1200x627px)...")
  /\ pc' = "save"
  /\ UNCHANGED <<tree, args, image_files, christmas_img, drawn, logo_info, caption,
                 exit_status, saved, call>>

\* Lines 348-352; main returns and the process exits with status 0.
Save ==
  /\ pc = "save"
  /\ saved' = TRUE
  /\ printed' = printed \o <<"Saved LinkedIn post to:", "Dimensions:">>
  /\ exit_status' = 0
  /\ pc' = "done"
  /\ UNCHANGED <<tree, args, image_files, christmas_img, drawn, logo_info, caption,
                 linkedin_post, call>>

Next ==
  \/ Locate
  \/ Overrides
  \/ CheckFiles
  \/ LoadBase
  \/ Erase
  \/ AddLogo
  \/ AddText
  \/ FormatPost
  \/ Save

Spec == Init /\ [][Next]_vars

Printed(line) == \E i \in 1..Len(printed) : printed[i] = line

\* --logo names a path at which there is no file.
LogoPathMissing == args # None /\ args.logo # None /\ ~Exists(args.logo)

\* C2: when --logo names a path that does not exist, the run goes on and
\* finishes with the logo-missing warning printed, the Logo Compositor never
\* invoked (no logo on the image) and the caption drawn in 'center_bottom'
\* mode.
C2_MissingLogoMeansNoLogo ==
  (pc = "done" /\ LogoPathMissing) =>
    /\ Printed("WARNING: Logo not found at:")
    /\ ~Printed("Adding logo...")
    /\ christmas_img.logo = None
    /\ caption.position = "center_bottom"

\* The base image of the run cannot be had: the explicit path does not exist,
\* or no base image is resolved, or the resolved one fails to decode as an
\* image.
BaseUnavailable ==
  \/ args.christmas_image # None /\ ~Exists(args.christmas_image)
  \/ /\ pc \notin {"start", "overrides"}
     /\ \/ image_files.christmas = None
        \/ FileAt(image_files.christmas).content \notin {"rgb", "rgba"}

\* C3: a base image that cannot be had is fatal: the process ends with a
\* status other than zero, before the Text Eraser is entered and with no
\* output written.
C3_FatalBeforeEraser ==
  /\ (pc \in {"done", "exited"} /\ BaseUnavailable) => exit_status # 0
  /\ BaseUnavailable => /\ ~Printed("Removing 'and happy newyear' text...")
                        /\ drawn = <<>>
                        /\ ~saved
====
